---- MODULE Spec2Model ----
(***************************************************************************)
(* A state-machine model of src/ppo.py: the PPO engine with N sub-policies *)
(* (class PPO) and the actor-critic graph it instantiates twice per        *)
(* sub-policy (class PolicyGraph).                                         *)
(*                                                                         *)
(* Numbers.  Real-valued tensors are modelled in integer fixed point with  *)
(* One = 1.0, so epsilon = 0.2 is 20, value_scale = 0.5 is 50 and          *)
(* entropy_scale = 0.01 is 1.  A network is reduced to the three trainable *)
(* variables the losses read directly: the bias of the action_mean layer,  *)
(* the action_logstd vector and the bias of the value layer (one action    *)
(* dimension; the hidden layers' kernels are left out).  tf.reduce_mean    *)
(* over a batch is kept as its numerator, the sum; the denominator is the  *)
(* batch size Len(batch), the same for every unit.                         *)
(*                                                                         *)
(* `self.active_sub_policy == sub_policy` is read as the element-wise      *)
(* indicator the surrounding comments describe, cast to the float type of  *)
(* the tensor it multiplies.                                               *)
(***************************************************************************)
EXTENDS Integers, Sequences, FiniteSets, TLC

VARIABLES
    phase,          \* "new" before PPO.__init__, then "ready" or "failed"
    config,         \* the constructor's arguments
    params,         \* value of every trainable variable, by name
    adam_m,         \* AdamOptimizer's first-moment slot of every policy_params variable
    counters,       \* train_step_counter, predict_step_counter, episode_counter
    metrics_count,  \* number of updates held by the tf.metrics.mean accumulators
    events,         \* train_writer: the step tags written, per summary stream
    saves,          \* history: number of save() calls
    checkpoint_dir, \* <<the checkpoint the directory's state file names>>, or <<>>
    at_save,        \* history: <<parameters and counters at the last save()>>, or <<>>
    restored,       \* history: a checkpoint has been restored in this run
    since_update,   \* history: "updated" after update_old_policy(), then "restored"
                    \* once a checkpoint is restored; "trained" after train()
    ret,            \* the last call of predict() or load_latest_checkpoint() and its result
    feed,           \* loss probe: the batch fed to the loss tensors, or <<>>
    fetched         \* loss probe: <<the loss tensors fetched for that batch>>, or <<>>

vars == <<phase, config, params, adam_m, counters, metrics_count, events, saves,
          checkpoint_dir, at_save, restored, since_update, ret, feed,
          fetched>>

\* ---------------------------------------------------------------- bounds
MaxBatch == 2           \* longest batch fed to train()
MaxCalls == 2           \* calls that write an event or a checkpoint, in one run

\* ------------------------------------------------------------- constants
One == 100              \* 1.0 in fixed point
Epsilon == 20           \* epsilon=0.2
ValueScale == 50        \* value_scale=0.5
EntropyScale == 1       \* entropy_scale=0.01
LogInitialStd == -1     \* log(initial_std), initial_std=0.4

\* Python's None, True and False as a call's return value
None == "None"
PyTrue == "True"
PyFalse == "False"


\* ------------------------------------------------------------ arithmetic
Abs(x) == IF x < 0 THEN -x ELSE x
Sgn(x) == IF x < 0 THEN -1 ELSE IF x > 0 THEN 1 ELSE 0
Min(a, b) == IF a <= b THEN a ELSE b
Max(a, b) == IF a >= b THEN a ELSE b

RECURSIVE SumSeq(_)
SumSeq(s) == IF s = <<>> THEN 0 ELSE Head(s) + SumSeq(Tail(s))

\* tf.clip_by_value(x, lo, hi) = minimum(maximum(x, lo), hi)
ClipByValue(x, lo, hi) == Min(Max(x, lo), hi)

\* tf.nn.tanh, saturating at -1 and 1
Tanh(z) == ClipByValue(z, -1, 1)

\* tf.exp of a log-probability difference, in fixed point: One * 2^d, the
\* exponent saturated at 2 either way.  Exp(0) = One, and Exp is strictly monotone
\* on -2..2.
Exp(d) ==
    LET e == ClipByValue(d, -2, 2)
    IN  CASE e = -2 -> One \div 4
          [] e = -1 -> One \div 2
          [] e = 0  -> One
          [] e = 1  -> One * 2
          [] e = 2  -> One * 4

\* ------------------------------------------------- trainable variables
\* Creation order inside PolicyGraph.__init__: the action_mean layer, the
\* action_logstd variable, the value layer.
Roles == <<"action_mean", "action_logstd", "value">>

\* The name of a trainable variable: its variable scope ("policy_<k>" or
\* "policy_old_<k>") and its role in the graph.
Var(scope, k, role) == <<scope, k, role>>

\* _create_sub_policy builds policy_<k>, then policy_old_<k>
Scopes == <<"policy", "policy_old">>

\* tf.GraphKeys.TRAINABLE_VARIABLES after the constructor's loop over
\* range(num_sub_policies): creation order.
TrainableVariables(n) ==
    [i \in 1..(n * Len(Scopes) * Len(Roles)) |->
        LET k == (i - 1) \div (Len(Scopes) * Len(Roles))
            w == (i - 1) % (Len(Scopes) * Len(Roles))
        IN  Var(Scopes[(w \div Len(Roles)) + 1], k, Roles[(w % Len(Roles)) + 1])]

\* tf.get_collection(TRAINABLE_VARIABLES, scope=...): the variables whose name
\* matches the scope pattern, in collection order.  "policy_[0-9]+/" matches
\* the scopes policy_<k> only, "policy_old_[0-9]+/" the scopes policy_old_<k>.
GetCollection(n, scope) ==
    SelectSeq(TrainableVariables(n), LAMBDA v : v[1] = scope)

PolicyParams(n) == GetCollection(n, "policy")
PolicyOldParams(n) == GetCollection(n, "policy_old")

Range(s) == {s[i] : i \in DOMAIN s}

\* ---------------------------------------------------------- PolicyGraph
\* action_mean: tanh output rescaled to [action_min, action_max]
ActionMean(p, cfg, scope, k) ==
    cfg.low + ((Tanh(p[Var(scope, k, "action_mean")]) + 1) * (cfg.high - cfg.low)) \div 2

\* action_log_prob: the Gaussian log-density of the taken action, summed over
\* the action dimensions (quadratic term in units of the variance)
ActionLogProb(p, cfg, scope, k, a) ==
    LET action_mean == ActionMean(p, cfg, scope, k)
    IN  0 - ((a - action_mean) * (a - action_mean)) - p[Var(scope, k, "action_logstd")]

\* action_normal.entropy() summed over the action dimensions: logstd + const
Entropy(p, scope, k) == p[Var(scope, k, "action_logstd")]

\* value head
Value(p, scope, k) == p[Var(scope, k, "value")]

\* ----------------------------------------------------- _create_sub_policy
\* prob_ratio = exp(log pi(a|s) - log pi_old(a|s)), per sample
ProbRatio(p, cfg, k, a) ==
    Exp(ActionLogProb(p, cfg, "policy", k, a) - ActionLogProb(p, cfg, "policy_old", k, a))

\* One sample's clipped surrogate
Surrogate(r, adv) ==
    Min(r * adv, ClipByValue(r, One - Epsilon, One + Epsilon) * adv)

\* policy_loss = reduce_mean(minimum(ratio * adv, clip(ratio) * adv)): a scalar
\* over the whole batch (numerator; denominator Len(batch))
PolicyLoss(p, cfg, k, batch) ==
    SumSeq([b \in 1..Len(batch) |->
        Surrogate(ProbRatio(p, cfg, k, batch[b].taken_action), batch[b].advantage)])

\* value_loss = reduce_mean(squared_difference(value, returns)) * value_scale
ValueLoss(p, k, batch) ==
    LET value == Value(p, "policy", k)
    IN  SumSeq([b \in 1..Len(batch) |->
            (value - batch[b].returns) * (value - batch[b].returns)]) * ValueScale

\* entropy_loss = reduce_mean(reduce_sum(entropy, axis=-1)) * entropy_scale
EntropyLoss(p, k, batch) ==
    SumSeq([b \in 1..Len(batch) |-> Entropy(p, "policy", k)]) * EntropyScale

\* ------------------------------------------- PPO.__init__: loss aggregation
\* sub_policy_filter = self.active_sub_policy == sub_policy, per sample
SubPolicyFilter(batch, k) ==
    [b \in 1..Len(batch) |-> IF batch[b].active_sub_policy = k THEN 1 ELSE 0]

\* policy_losses.append(policy_loss * sub_policy_filter), for sub_policy in
\* range(num_sub_policies): each unit's scalar times its filter vector, one
\* entry per sample
FilteredList(unit_losses, batch) ==
    [i \in 1..Len(unit_losses) |->
        LET unit_loss == unit_losses[i]
            sub_policy_filter == SubPolicyFilter(batch, i - 1)
        IN  [b \in 1..Len(batch) |-> unit_loss * sub_policy_filter[b]]]

\* tf.reduce_sum(list_of_vectors, axis=0)
ReduceSumAxis0(list, len) ==
    [b \in 1..len |-> SumSeq([i \in 1..Len(list) |-> list[i][b]])]

AggPolicyLoss(p, cfg, batch) ==
    ReduceSumAxis0(FilteredList([i \in 1..cfg.num_sub_policies |->
                                   PolicyLoss(p, cfg, i - 1, batch)], batch),
                   Len(batch))
AggValueLoss(p, cfg, batch) ==
    ReduceSumAxis0(FilteredList([i \in 1..cfg.num_sub_policies |->
                                   ValueLoss(p, i - 1, batch)], batch),
                   Len(batch))
AggEntropyLoss(p, cfg, batch) ==
    ReduceSumAxis0(FilteredList([i \in 1..cfg.num_sub_policies |->
                                   EntropyLoss(p, i - 1, batch)], batch),
                   Len(batch))

\* self.loss = -self.policy_loss + self.value_loss - self.entropy_loss
Loss(p, cfg, batch) ==
    LET policy_loss == AggPolicyLoss(p, cfg, batch)
        value_loss == AggValueLoss(p, cfg, batch)
        entropy_loss == AggEntropyLoss(p, cfg, batch)
    IN  [b \in 1..Len(batch) |-> 0 - policy_loss[b] + value_loss[b] - entropy_loss[b]]

\* ------------------------------------------------------------- optimizer
\* optimizer.minimize(self.loss, var_list=policy_params) differentiates the
\* sum of the entries of self.loss.  A variable of scope policy_<k> or
\* policy_old_<k> feeds the tensors of unit k only, so back-propagation
\* reaches it through unit k's three scalars, each weighted by the sum of unit
\* k's filter; the derivative of the scalars is taken as a central difference.
UnitObjective(p, cfg, k, batch) ==
    0 - PolicyLoss(p, cfg, k, batch) + ValueLoss(p, k, batch) - EntropyLoss(p, k, batch)

Gradient(p, cfg, batch, v) ==
    SumSeq(SubPolicyFilter(batch, v[2]))
        * (UnitObjective([p EXCEPT ![v] = @ + 1], cfg, v[2], batch)
            - UnitObjective([p EXCEPT ![v] = @ - 1], cfg, v[2], batch))

\* Adam's first moment: m <- beta1 * m + (1 - beta1) * g with beta1 = 0.9, the
\* gradient normalised to its sign (m is kept in tenths of a unit gradient,
\* times ten)
AdamMoment(m, g) == Sgn(m) * ((9 * Abs(m)) \div 10) + 10 * Sgn(g)

\* Adam's step: the variable moves against the sign of its moment by one
\* learning-rate unit
AdamApply(x, m) == x - Sgn(m)

\* Variant: minimize() without var_list, over every trainable variable
VarListAllTrainable(n) == TrainableVariables(n)

\* var_list of optimizer.minimize: policy_params, the current-policy variables
VarList(n) == PolicyParams(n)

\* self.train_step: one Adam step on every variable that has a slot (the
\* variables of var_list); every other variable keeps its value.
TrainStepMoments(m, p, cfg, batch) ==
    [v \in DOMAIN m |-> AdamMoment(m[v], Gradient(p, cfg, batch, v))]

TrainStepParams(m_new, p) ==
    [v \in DOMAIN p |->
        IF v \in DOMAIN m_new THEN AdamApply(p[v], m_new[v]) ELSE p[v]]

\* Variant: the pairs zipped in opposite orders
UpdateOpCrossed(p, n) ==
    [v \in DOMAIN p |->
        IF \E i \in DOMAIN PolicyOldParams(n) : PolicyOldParams(n)[i] = v
        THEN p[PolicyParams(n)[Len(PolicyParams(n)) + 1
                                 - (CHOOSE i \in DOMAIN PolicyOldParams(n) :
                                       PolicyOldParams(n)[i] = v)]]
        ELSE p[v]]

\* self.update_op = group(dst.assign(src) for src, dst in zip(policy_params,
\* policy_old_params)): the i-th old variable takes the i-th current one
UpdateOp(p, n) ==
    [v \in DOMAIN p |->
        IF \E i \in DOMAIN PolicyOldParams(n) : PolicyOldParams(n)[i] = v
        THEN p[PolicyParams(n)[CHOOSE i \in DOMAIN PolicyOldParams(n) :
                                    PolicyOldParams(n)[i] = v]]
        ELSE p[v]]

\* ---------------------------------------------------------------- inputs
\* Constructor arguments.  A well-formed configuration has a positive number
\* of sub-policies, a positive action dimensionality and low < high.
InputShapes == {<<2>>, <<2, 2>>, <<2, 2, 1>>}
ActionBounds == {<<-1, 1>>, <<1, 1>>, <<1, -1>>}
Configs ==
    [input_shape : InputShapes, num_actions : {0, 1}, bounds : ActionBounds,
     num_sub_policies : {-1, 0, 2}]

\* The configuration of the engine runs: flat observations, one action in
\* [-1, 1], two sub-policies
DefaultConfig ==
    [input_shape |-> <<2>>, num_actions |-> 1, bounds |-> <<-1, 1>>,
     num_sub_policies |-> 2]

WellFormed(c) ==
    /\ c.num_sub_policies > 0
    /\ c.num_actions > 0
    /\ c.bounds[1] < c.bounds[2]

\* What the graph operators read of a configuration
Cfg(c) == [low |-> c.bounds[1], high |-> c.bounds[2],
           num_sub_policies |-> c.num_sub_policies]

\* One row of a training batch
Samples(n) ==
    [taken_action : {1}, returns : {1}, advantage : {1},
     active_sub_policy : 0..(n - 1)]

Batches(n) == UNION {[1..len -> Samples(n)] : len \in 1..MaxBatch}

\* Initial value of a trainable variable: the layers' bias_initializer is
\* zeros, action_logstd starts at log(initial_std)
Initializer(v) == IF v[3] = "action_logstd" THEN LogInitialStd ELSE 0

\* --------------------------------------------------------------- counters
CounterNames == {"train_step", "predict_step", "episode"}

\* create_counter_variable: a counter starts at 0
NewCounters == [c \in CounterNames |-> 0]

\* Counter.inc_op: the named counter moves up by one
Inc(c, name) == [c EXCEPT ![name] = @ + 1]

\* One more call may write to the event log or to the checkpoint directory
LogHasRoom ==
    Len(events.train) + Len(events.predict) + Len(events.episode) + saves < MaxCalls

\* ------------------------------------------------------------ PPO.__init__
\* The constructor validates nothing itself.  It raises where a library call
\* does: optimizer.minimize with an empty var_list (no sub-policy was built),
\* and tf.summary.merge of an empty list (no action dimension).
ConstructorRaises(c) ==
    \/ Len(VarList(Max(c.num_sub_policies, 0))) = 0
    \/ c.num_actions <= 0

Construct ==
    /\ phase = "new"
    /\ phase' = IF ConstructorRaises(config) THEN "failed" ELSE "built"
    /\ UNCHANGED <<config, params, adam_m, counters, metrics_count, events, saves,
                   checkpoint_dir, at_save, restored, since_update, ret,
                   feed, fetched>>

\* init_session: global_variables_initializer and local_variables_initializer
InitSession ==
    /\ phase = "built"
    /\ phase' = "ready"
    /\ params' = [v \in Range(TrainableVariables(config.num_sub_policies)) |->
                    Initializer(v)]
    /\ adam_m' = [v \in Range(VarList(config.num_sub_policies)) |-> 0]
    /\ counters' = NewCounters
    /\ metrics_count' = 0
    /\ UNCHANGED <<config, events, saves, checkpoint_dir, at_save, restored,
                   since_update, ret, feed, fetched>>

\* ------------------------------------------------------------------ train
\* self.stepwise_summaries, written with step_idx: of its histograms the
\* event keeps the one of active_sub_policy, as the set of ids it counts
StepEvent(step_idx, batch) ==
    [step |-> step_idx,
     active_sub_policy |-> {batch[b].active_sub_policy : b \in 1..Len(batch)}]

\* Variant: a train() that leaves its counter alone
TrainCountersStuck(c) == c

\* Line 269: the counter train() increments
TrainCounters(c) == Inc(c, "train_step")

Train(batch) ==
    /\ phase = "ready"
    /\ LogHasRoom
    /\ adam_m' = TrainStepMoments(adam_m, params, Cfg(config), batch)
    /\ params' = TrainStepParams(adam_m', params)
    /\ metrics_count' = metrics_count + 1
    /\ events' = [events EXCEPT
                    !.train = Append(@, StepEvent(counters["train_step"], batch))]
    /\ counters' = TrainCounters(counters)
    /\ since_update' = "trained"
    /\ UNCHANGED <<phase, config, saves, checkpoint_dir, at_save, restored,
                   ret, feed, fetched>>

\* ---------------------------------------------------------------- predict
\* np.asarray(x); if len(x.shape) != 2: x = [x]
ExtendAxis0(shape) == IF Len(shape) # 2 THEN <<1>> \o shape ELSE shape

\* sess.run accepts a fed value whose rank is the placeholder's and whose
\* dimensions agree with the placeholder's known ones (shape (None, *rest))
FeedFits(shape, rest) ==
    /\ Len(shape) = 1 + Len(rest)
    /\ \A i \in 1..Len(rest) : shape[i + 1] = rest[i]

\* Variant: a predict() that counts every call
PredictCountersAlways(c, write_to_summary) == Inc(c, "predict_step")

\* Lines 290-292: the counter predict() increments
PredictCounters(c, write_to_summary) ==
    IF write_to_summary THEN Inc(c, "predict_step") ELSE c

\* What predict() returns for fed shapes that sess.run accepted: one
\* (action, value) pair when len(input_states) == 1, else the arrays
PredictResult(in_shape) == IF in_shape[1] = 1 THEN "pair" ELSE "arrays"

Predict(in_shape, sp_shape, write_to_summary) ==
    /\ phase = "ready"
    /\ write_to_summary => LogHasRoom
    /\ LET fed_in == ExtendAxis0(in_shape)
           fed_sp == ExtendAxis0(sp_shape)
       IN  IF FeedFits(fed_in, config.input_shape) /\ FeedFits(fed_sp, <<>>)
           THEN /\ ret' = [op |-> "predict", value |-> PredictResult(fed_in),
                            args |-> <<in_shape, sp_shape>>]
                /\ counters' = PredictCounters(counters, write_to_summary)
                /\ events' = IF write_to_summary
                             THEN [events EXCEPT
                                     !.predict = Append(@, counters["predict_step"])]
                             ELSE events
           ELSE /\ ret' = [op |-> "predict", value |-> "raised",
                            args |-> <<in_shape, sp_shape>>]
                /\ UNCHANGED <<counters, events>>
    /\ UNCHANGED <<phase, config, params, adam_m, metrics_count, saves,
                   checkpoint_dir, at_save, restored, since_update, feed, fetched>>

\* The ways a caller hands over observations with their sub-policy ids: one
\* observation with one id, or K observations with K ids
PredictInputs(c) ==
    {<<c.input_shape, <<>>>>}
        \cup {<<(<<K>> \o c.input_shape), <<K>>>> : K \in 1..MaxBatch}

\* ----------------------------------------------- write_episodic_summaries
EpisodeCounters(c) == Inc(c, "episode")

WriteEpisodicSummaries ==
    /\ phase = "ready"
    /\ LogHasRoom
    /\ events' = [events EXCEPT !.episode = Append(@, counters["episode"])]
    /\ counters' = EpisodeCounters(counters)
    /\ metrics_count' = 0
    /\ UNCHANGED <<phase, config, params, adam_m, saves, checkpoint_dir,
                   at_save, restored, since_update, ret, feed, fetched>>

\* ------------------------------------------------------ update_old_policy
UpdateOldPolicy ==
    /\ phase = "ready"
    /\ params' = UpdateOp(params, config.num_sub_policies)
    /\ since_update' = "updated"
    /\ UNCHANGED <<phase, config, adam_m, counters, metrics_count, events, saves,
                   checkpoint_dir, at_save, restored, ret, feed, fetched>>

\* ------------------------------------------------------------ checkpoints
\* Variant: a saver over the trainable variables and slots only
SavedVariablesNoCounters(p, m, c) ==
    [params |-> p, adam_m |-> m, counters |-> NewCounters]

\* tf.train.Saver(): every global variable at the time line 202 runs, i.e. the
\* trainable variables, the optimizer's slots and the counters (the metrics'
\* accumulators are local variables and are not saved)
SavedVariables(p, m, c) == [params |-> p, adam_m |-> m, counters |-> c]

\* saver.save(sess, "model.ckpt", global_step=episode_counter): writes
\* model.ckpt-<episode> and makes the directory's state file name it.  Only
\* the checkpoint the state file names is ever read back, so the directory
\* is kept as that one checkpoint.
SaverSave(p, m, c) ==
    <<[global_step |-> c["episode"], readable |-> TRUE,
       variables |-> SavedVariables(p, m, c)]>>

Save ==
    /\ phase = "ready"
    /\ LogHasRoom
    /\ saves' = saves + 1
    /\ checkpoint_dir' = SaverSave(params, adam_m, counters)
    /\ at_save' = <<[params |-> params, counters |-> counters]>>
    /\ UNCHANGED <<phase, config, params, adam_m, counters, metrics_count,
                   events, restored, since_update, ret, feed, fetched>>

\* tf.train.latest_checkpoint(checkpoint_dir): the checkpoint the state file
\* names, or None
LatestCheckpoint(dir) == dir

\* saver.restore assigns every saved variable
RestoredParams(ckpt) == ckpt.variables.params
RestoredMoments(ckpt) == ckpt.variables.adam_m
RestoredCounters(ckpt) == ckpt.variables.counters

LoadLatestCheckpoint ==
    /\ phase = "ready"
    /\ LET model_checkpoint == LatestCheckpoint(checkpoint_dir)
       IN  IF model_checkpoint = <<>>
           THEN \* `if model_checkpoint:` is false and the method falls off its end
                /\ ret' = [op |-> "load_latest_checkpoint", value |-> None,
                            args |-> <<>>]
                /\ UNCHANGED <<params, adam_m, counters, restored, since_update>>
           ELSE IF ~model_checkpoint[1].readable
           THEN \* saver.restore raised: `except: return False`
                /\ ret' = [op |-> "load_latest_checkpoint", value |-> PyFalse,
                            args |-> <<>>]
                /\ UNCHANGED <<params, adam_m, counters, restored, since_update>>
           ELSE /\ params' = RestoredParams(model_checkpoint[1])
                /\ adam_m' = RestoredMoments(model_checkpoint[1])
                /\ counters' = RestoredCounters(model_checkpoint[1])
                /\ restored' = TRUE
                /\ since_update' = IF since_update = "updated" THEN "restored"
                                   ELSE since_update
                /\ ret' = [op |-> "load_latest_checkpoint", value |-> PyTrue,
                            args |-> <<>>]
    /\ UNCHANGED <<phase, config, metrics_count, events, saves, checkpoint_dir,
                   at_save, feed, fetched>>

\* ------------------------------------------------------------- loss probe
\* One sess.run of the loss tensors on a fed batch
FetchLosses ==
    /\ phase = "ready"
    /\ feed # <<>>
    /\ fetched = <<>>
    /\ fetched' = <<[policy_loss  |-> AggPolicyLoss(params, Cfg(config), feed),
                   value_loss   |-> AggValueLoss(params, Cfg(config), feed),
                   entropy_loss |-> AggEntropyLoss(params, Cfg(config), feed),
                   loss         |-> Loss(params, Cfg(config), feed)]>>
    /\ UNCHANGED <<phase, config, params, adam_m, counters, metrics_count,
                   events, saves, checkpoint_dir, at_save, restored, since_update,
                   ret, feed>>

\* --------------------------------------------------------- specifications
NoCall == [op |-> None, value |-> None, args |-> <<>>]

NoEvents == [train |-> <<>>, predict |-> <<>>, episode |-> <<>>]

\* The checkpoint directory when the engine starts: empty, holding a
\* checkpoint this Saver cannot restore, or holding the checkpoint an earlier
\* run of the same configuration saved right after init_session
EarlierRun(c) ==
    SaverSave([v \in Range(TrainableVariables(Max(c.num_sub_policies, 0))) |->
                  Initializer(v)],
              [v \in Range(VarList(Max(c.num_sub_policies, 0))) |-> 0],
              NewCounters)

InitialDirs(c) ==
    {<<>>, <<[EarlierRun(c)[1] EXCEPT !.readable = FALSE]>>, EarlierRun(c)}

InitWith(c, dir) ==
    /\ phase = "new"
    /\ config = c
    /\ params = <<>>
    /\ adam_m = <<>>
    /\ counters = NewCounters
    /\ metrics_count = 0
    /\ events = NoEvents
    /\ saves = 0
    /\ checkpoint_dir = dir
    /\ at_save = <<>>
    /\ restored = FALSE
    /\ since_update = "never"
    /\ ret = NoCall
    /\ feed = <<>>
    /\ fetched = <<>>

\* The engine, from its construction on
Init == \E dir \in InitialDirs(DefaultConfig) : InitWith(DefaultConfig, dir)

Next ==
    \/ Construct
    \/ InitSession
    \/ \E batch \in Batches(config.num_sub_policies) : Train(batch)
    \/ \E i \in PredictInputs(config), w \in BOOLEAN : Predict(i[1], i[2], w)
    \/ WriteEpisodicSummaries
    \/ UpdateOldPolicy
    \/ Save
    \/ LoadLatestCheckpoint

Spec == Init /\ [][Next]_vars

\* The engine under every configuration a caller may pass, malformed ones too
InitAnyConfig == \E c \in Configs : InitWith(c, <<>>)

SpecAnyConfig == InitAnyConfig /\ [][Next]_vars

\* The loss tensors on every batch and a range of parameter values
ProbeSamples(n) ==
    [taken_action : {1}, returns : {0, 1}, advantage : {-1, 1},
     active_sub_policy : 0..(n - 1)]

ProbeBatches(n) == UNION {[1..len -> ProbeSamples(n)] : len \in 1..MaxBatch}

ProbeParams(n) ==
    {[v \in Range(TrainableVariables(n)) |->
        IF v[1] = "policy" /\ v[3] # "action_logstd"
        THEN Initializer(v) + d[v[2] + 1] ELSE Initializer(v)] :
            d \in [1..n -> {0, 1}]}

InitLoss ==
    /\ phase = "ready"
    /\ config = DefaultConfig
    /\ params \in ProbeParams(DefaultConfig.num_sub_policies)
    /\ adam_m = [v \in Range(VarList(DefaultConfig.num_sub_policies)) |-> 0]
    /\ counters = NewCounters
    /\ metrics_count = 0
    /\ events = NoEvents
    /\ saves = 0
    /\ checkpoint_dir = <<>>
    /\ at_save = <<>>
    /\ restored = FALSE
    /\ since_update = "never"
    /\ ret = NoCall
    /\ feed \in ProbeBatches(DefaultConfig.num_sub_policies)
    /\ fetched = <<>>

SpecLoss == InitLoss /\ [][FetchLosses]_vars

\* ================================================================= claims
SubPolicies == 0..(config.num_sub_policies - 1)
Ready == phase = "ready"

CurrentOf(p, k) == [r \in Range(Roles) |-> p[Var("policy", k, r)]]
OldOf(p, k) == [r \in Range(Roles) |-> p[Var("policy_old", k, r)]]
InitialOf(k) == [r \in Range(Roles) |-> Initializer(Var("policy", k, r))]

\* ---- C1
\* The sum a unit would contribute if its filter were applied to each sample
\* before the reduction: only the samples routed to k are added up.
MaskedSum(terms, batch, k) ==
    SumSeq([b \in 1..Len(batch) |->
        IF batch[b].active_sub_policy = k THEN terms[b] ELSE 0])

\* The sum of the entries of unit k's filtered vector, as the code builds it
FilteredSum(scalar, batch, k) ==
    SumSeq([b \in 1..Len(batch) |-> scalar * SubPolicyFilter(batch, k)[b]])

\* C1: for every fetched batch and every sub-policy k, the batch mean of unit
\* k's policy, value and entropy terms in the aggregated loss is the sum over
\* the samples routed to k divided by the batch size (in numerators over the
\* common denominator Len(feed)^2: the filtered entries' sum equals Len(feed)
\* times the masked sum).
C1_MaskBeforeMean ==
    fetched # <<>> =>
        \A k \in SubPolicies :
            /\ FilteredSum(PolicyLoss(params, Cfg(config), k, feed), feed, k)
                 = Len(feed) * MaskedSum(
                     [b \in 1..Len(feed) |->
                         Surrogate(ProbRatio(params, Cfg(config), k,
                                             feed[b].taken_action),
                                   feed[b].advantage)], feed, k)
            /\ FilteredSum(ValueLoss(params, k, feed), feed, k)
                 = Len(feed) * MaskedSum(
                     [b \in 1..Len(feed) |->
                         (Value(params, "policy", k) - feed[b].returns)
                           * (Value(params, "policy", k) - feed[b].returns)
                           * ValueScale], feed, k)
            /\ FilteredSum(EntropyLoss(params, k, feed), feed, k)
                 = Len(feed) * MaskedSum(
                     [b \in 1..Len(feed) |->
                         Entropy(params, "policy", k) * EntropyScale], feed, k)

\* ---- C2
\* This step is a train() call whose batch routes every sample to k
TrainedOnly(k) ==
    /\ Ready
    /\ Len(events'.train) = Len(events.train) + 1
    /\ events'.train[Len(events'.train)].active_sub_policy = {k}

C3_OldOnlyBySync ==
    [][(Ready /\ \E k \in SubPolicies : OldOf(params', k) # OldOf(params, k))
          => (UpdateOldPolicy \/ LoadLatestCheckpoint)]_vars

\* train() has moved a current policy away from its untouched old policy
C3_Witness ==
    /\ Ready
    /\ since_update = "trained"
    /\ ~restored
    /\ \E k \in SubPolicies : CurrentOf(params, k) # OldOf(params, k)
    /\ \A k \in SubPolicies : OldOf(params, k) = InitialOf(k)

\* ---- C4
\* Every old-policy variable equals the current-policy variable of the same
\* sub-policy and role, and every unit's probability ratio is 1
Synced ==
    /\ \A k \in SubPolicies : OldOf(params, k) = CurrentOf(params, k)
    /\ \A k \in SubPolicies, a \in {-1, 0, 1} :
          ProbRatio(params, Cfg(config), k, a) = One

\* C4 as claimed: from update_old_policy() until the next train() call, old
\* equals current, variable by variable, and prob_ratio is 1.
C4_SyncedUntilTrain ==
    (Ready /\ since_update \in {"updated", "restored"}) => Synced

\* C4 amended: from update_old_policy() until the next train() call or
\* restored checkpoint, old equals current, variable by variable, and
\* prob_ratio is 1.
C4_SyncedUntilTrainOrRestore ==
    (Ready /\ since_update = "updated") => Synced

\* update_old_policy() has copied trained values
C4_Witness ==
    /\ Ready
    /\ since_update = "updated"
    /\ \E k \in SubPolicies : OldOf(params, k) # InitialOf(k)
    /\ \E j, k \in SubPolicies : CurrentOf(params, j) # CurrentOf(params, k)

\* ---- C5
\* C5: while no checkpoint has been restored, each counter equals the number
\* of its triggering calls: train() calls, predict(write_to_summary=True)
\* calls that returned, write_episodic_summaries() calls.
C5_CountersCountCalls ==
    (Ready /\ ~restored) =>
        /\ counters["train_step"] = Len(events.train)
        /\ counters["predict_step"] = Len(events.predict)
        /\ counters["episode"] = Len(events.episode)

\* Two of the counters have moved, a predict() without summary has returned
C5_Witness ==
    /\ Ready
    /\ ~restored
    /\ counters["train_step"] = 1
    /\ counters["episode"] = 1
    /\ counters["predict_step"] = 0
    /\ ret.op = "predict"
    /\ ret.value = "pair"

\* ---- C6
\* C6: a load_latest_checkpoint() after a save() returns True and leaves every
\* parameter and every counter as it was at that save().
C6_RoundTrip ==
    [][(LoadLatestCheckpoint /\ at_save # <<>>) =>
          /\ ret'.value = PyTrue
          /\ params' = at_save[1].params
          /\ counters' = at_save[1].counters]_vars

\* A checkpoint saved before a train() has been restored after it
C6_Witness ==
    /\ Ready
    /\ restored
    /\ at_save # <<>>
    /\ ret.op = "load_latest_checkpoint"
    /\ ret.value = PyTrue
    /\ params = at_save[1].params
    /\ counters = at_save[1].counters
    /\ Len(events.train) > counters["train_step"]

\* ---- C7
\* C7: load_latest_checkpoint() returns a boolean.
C7_LoadReturnsBoolean ==
    ret.op = "load_latest_checkpoint" => ret.value \in {PyTrue, PyFalse}

\* ---- C8
\* C8: a single observation with a single id yields one (action, value) pair;
\* K > 1 observations with K ids yield the arrays of K rows.
C8_PredictBatching ==
    ret.op = "predict" =>
        /\ (ret.args[1] = config.input_shape /\ ret.args[2] = <<>>)
              => ret.value = "pair"
        /\ (Len(ret.args[1]) = Len(config.input_shape) + 1 /\ ret.args[1][1] > 1)
              => ret.value = "arrays"

\* ---- C9
\* C9: no engine is ever built from a malformed configuration.
C9_MalformedConfigRejected ==
    phase \in {"built", "ready"} => WellFormed(config)

\* ---- C10
StrictlyIncreasing(tags) ==
    \A i, j \in DOMAIN tags : i < j => tags[i] < tags[j]

TrainTags(e) == [i \in DOMAIN e.train |-> e.train[i].step]

\* The event a step appends carries the counter's value before the step's
\* increment, and write_episodic_summaries() empties the accumulators
TaggedBeforeIncrement ==
    /\ events'.train # events.train =>
          /\ Len(events'.train) = Len(events.train) + 1
          /\ TrainTags(events')[Len(events'.train)] = counters["train_step"]
          /\ counters'["train_step"] = counters["train_step"] + 1
    /\ events'.episode # events.episode =>
          /\ events'.episode = Append(events.episode, counters["episode"])
          /\ counters'["episode"] = counters["episode"] + 1
          /\ metrics_count' = 0

\* C10 as claimed: the tags of the train events and of the episode events
\* are strictly increasing in the order written, over any run.
C10_TagsIncreaseAlways ==
    /\ StrictlyIncreasing(TrainTags(events))
    /\ StrictlyIncreasing(events.episode)

\* C10 amended: every train and episode event carries the counter's value
\* before the call's increment, and while no checkpoint has been restored the
\* tags of each stream are strictly increasing in the order written.
C10_TagsIncreaseUntilRestore ==
    [][/\ TaggedBeforeIncrement
       /\ ~restored' => /\ StrictlyIncreasing(TrainTags(events'))
                        /\ StrictlyIncreasing(events'.episode)]_vars

\* Two train events, then two episode events, written without a restore
C10_Witness ==
    /\ ~restored
    /\ \/ TrainTags(events) = <<0, 1>>
       \/ events.episode = <<0, 1>>

====
